---- MODULE Spec2Model ----
(***************************************************************************)
(* Process supervisor of the Achilles desktop shell                        *)
(* (frontend/src-tauri/src/server.rs and lib.rs).                          *)
(*                                                                         *)
(* Two supervised services: the backend ("server", port 8900) and the MCP  *)
(* server ("mcp", port 8901).  The state is the managed AppState, the two  *)
(* child registries ServerProcess / McpProcess, the children spawned so    *)
(* far, the last payload emitted on each event channel, and one record per *)
(* task holding the position and the locals of the function that task is   *)
(* executing.  The health endpoints and the outcome of spawn and kill      *)
(* belong to the environment: each probe, spawn and kill draws its outcome.*)
(***************************************************************************)
EXTENDS Integers, Sequences, FiniteSets, TLC

\* Bound on the number of commands the frontend invokes in one run.
MaxCalls == 2

\* Option::None of ServerProcess.child / McpProcess.child; children are 1, 2, ...
NoChild == 0

\* `for _ in 0..15` of start_with_python and `for _ in 0..10` of do_start_mcp.
ServerPollAttempts == 15
McpPollAttempts == 10

python_cmds == <<"python3", "python">>

Services == {"server", "mcp"}

Channel(svc) == IF svc = "server" THEN "server-status" ELSE "mcp-status"

Channels == {Channel(svc) : svc \in Services}

\* The two tasks spawned by setup and the command being served for the frontend.
Tasks == {"setup_backend", "setup_mcp", "command"}

StartOps == {"start_backend_server", "do_start_server", "do_start_mcp"}

StopOps == {"do_stop_server", "do_stop_mcp"}

\* The status query surface.
QueryOps == {"get_server_status", "get_api_url", "check_server_health"}

SvcOf(op) == IF op \in {"do_start_mcp", "do_stop_mcp"} THEN "mcp" ELSE "server"

VARIABLES AppState, ServerProcess, McpProcess, procs, lastEvent, task, calls

vars == <<AppState, ServerProcess, McpProcess, procs, lastEvent, task, calls>>

\* The child handle the registry of a service holds.
Child(svc) == IF svc = "server" THEN ServerProcess.child ELSE McpProcess.child

\* The running flag get_server_status reads (and its MCP twin).
Running(svc) == IF svc = "server" THEN AppState.server_running ELSE AppState.mcp_running

get_server_status == AppState.server_running

get_api_url == AppState.api_url

\* A spawned child process: the service it serves, whether it lives, and how
\* often kill() was called on its handle.
Proc(svc) == [svc |-> svc, alive |-> TRUE, kills |-> 0]

\* check_health / check_mcp_port: one GET, reduced to a boolean; the answer
\* is the endpoint's, any of the two at any probe.
check_health == BOOLEAN

check_mcp_port == BOOLEAN

\* Variant for C19: one flag write reaches both services.
update_state_BothFlags(s, running) ==
    [s EXCEPT !.server_running = running, !.mcp_running = running]

update_state(s, running) == [s EXCEPT !.server_running = running]

update_mcp_state(s, running) == [s EXCEPT !.mcp_running = running]

\* Locals of a task that is not executing anything.
NoLocals(pc) ==
    [op |-> "none", pc |-> pc, i |-> 1, k |-> 0, h |-> FALSE, h0 |-> FALSE,
     reg0 |-> NoChild, probes |-> 0, child |-> NoChild, attempts |-> <<>>,
     emitted |-> <<>>, writes |-> <<>>, ret |-> "none", held |-> {},
     url |-> <<>>]

\* Locals at the entry of op.  i: index into python_cmds; k: poll iterations
\* done; h: result of the latest probe; child: the handle a spawn returned or
\* take() yielded; ret: the value returned.  Recorded for the properties:
\* h0 / reg0 (the endpoint's answer and the registry handle at entry), probes (health
\* probes issued), attempts (one entry per spawn attempt, the child or NoChild),
\* emitted (payloads emitted), writes (values written to the running flag).
\* held: the MutexGuards alive at the task's position; every guard of the
\* source is dropped at the end of the block that took it, within one step.
Fresh(op) ==
    [NoLocals("entry") EXCEPT !.op = op, !.reg0 = Child(SvcOf(op))]

\* A child is referenced while a registry or a task's locals hold its handle.
Referenced(p) ==
    \/ p = ServerProcess.child
    \/ p = McpProcess.child
    \/ \E t \in Tasks :
          \/ p = task[t].child
          \/ p = task[t].reg0
          \/ \E n \in 1..Len(task[t].attempts) : p = task[t].attempts[n]

\* The id of the next child: the ids of dead children nobody holds are reused.
NewPid ==
    LET free == {p \in 1..Len(procs) : ~procs[p].alive /\ ~Referenced(p)}
    IN  IF free = {} THEN Len(procs) + 1
        ELSE CHOOSE p \in free : \A q \in free : p <= q

\* spawn() succeeded for a child of svc.
Spawned(svc) ==
    IF NewPid > Len(procs) THEN Append(procs, Proc(svc))
    ELSE [procs EXCEPT ![NewPid] = Proc(svc)]

\* The mutexes of the managed state.
Mutexes == {"AppState", "ServerProcess", "McpProcess"}

\* state.lock() on mutex m returns: no other task holds its guard.
LockFree(t, m) == \A u \in Tasks \ {t} : m \notin task[u].held

At(t, op, pc) == task[t].op = op /\ task[t].pc = pc

\* A command arrives from the frontend.
CanCall(t) == t = "command" /\ task[t].pc = "idle" /\ calls < MaxCalls

Init ==
    /\ AppState = [server_running |-> FALSE, server_port |-> 8900,
                   api_url |-> "http://127.0.0.1:8900",
                   mcp_running |-> FALSE, mcp_port |-> 8901,
                   mcp_url |-> "http://127.0.0.1:8901"]
    /\ ServerProcess = [child |-> NoChild]
    /\ McpProcess = [child |-> NoChild]
    /\ procs = <<>>
    /\ lastEvent = [c \in Channels |-> "none"]
    /\ task = [t \in Tasks |-> NoLocals(IF t = "command" THEN "idle" ELSE "init")]
    /\ calls = 0

\* app.emit(channel, payload) by task t whose locals become me.
Emit(t, me, svc, payload) ==
    /\ lastEvent' = [lastEvent EXCEPT ![Channel(svc)] = payload]
    /\ task' = [task EXCEPT ![t] = [me EXCEPT !.emitted = Append(@, payload)]]

\* Where start_with_python goes after python_cmds[i] is given up.
NextPython(me) ==
    IF me.i < Len(python_cmds)
    THEN [me EXCEPT !.i = @ + 1, !.k = 0, !.pc = "py_spawn"]
    ELSE [me EXCEPT !.pc = "py_failed"]

-----------------------------------------------------------------------------
(* start_backend_server: start_sidecar, then start_with_python on false.   *)

\* shell.sidecar("achilles-server") and sidecar.spawn().
StartSidecarSpawn(t) ==
    /\ t = "setup_backend" /\ task[t].pc = "init"
    /\ \E ok \in BOOLEAN, h0 \in check_health :
        LET me == [Fresh("start_backend_server") EXCEPT !.h0 = h0]
            pid == NewPid
        IN  IF ok
            THEN /\ procs' = Spawned("server")
                 /\ task' = [task EXCEPT ![t] =
                        [me EXCEPT !.pc = "sc_store", !.child = pid,
                                   !.attempts = Append(@, pid)]]
            ELSE /\ procs' = procs
                 /\ task' = [task EXCEPT ![t] =
                        [me EXCEPT !.pc = "py_spawn",
                                   !.attempts = Append(@, NoChild)]]
    /\ UNCHANGED <<AppState, ServerProcess, McpProcess, lastEvent, calls>>

StartSidecarStore(t) ==
    /\ At(t, "start_backend_server", "sc_store")
    /\ LockFree(t, "ServerProcess")
    /\ ServerProcess' = [ServerProcess EXCEPT !.child = task[t].child]
    /\ task' = [task EXCEPT ![t].pc = "sc_probe"]
    /\ UNCHANGED <<AppState, McpProcess, procs, lastEvent, calls>>

\* sleep(3) and the single check_health of start_sidecar.
StartSidecarProbe(t) ==
    /\ At(t, "start_backend_server", "sc_probe")
    /\ \E h \in check_health :
           task' = [task EXCEPT ![t] =
              [@ EXCEPT !.h = h, !.probes = @ + 1,
                        !.pc = IF h THEN "sc_update" ELSE "py_spawn"]]
    /\ UNCHANGED <<AppState, ServerProcess, McpProcess, procs, lastEvent, calls>>

StartSidecarUpdate(t) ==
    /\ At(t, "start_backend_server", "sc_update")
    /\ LockFree(t, "AppState")
    /\ AppState' = update_state(AppState, TRUE)
    /\ task' = [task EXCEPT ![t] =
          [@ EXCEPT !.writes = Append(@, TRUE), !.pc = "sc_emit"]]
    /\ UNCHANGED <<ServerProcess, McpProcess, procs, lastEvent, calls>>

StartSidecarEmit(t) ==
    /\ At(t, "start_backend_server", "sc_emit")
    /\ Emit(t, [task[t] EXCEPT !.pc = "done", !.ret = "Unit"], "server", "running")
    /\ UNCHANGED <<AppState, ServerProcess, McpProcess, procs, calls>>

start_sidecar(t) ==
    \/ StartSidecarSpawn(t)
    \/ StartSidecarStore(t)
    \/ StartSidecarProbe(t)
    \/ StartSidecarUpdate(t)
    \/ StartSidecarEmit(t)

\* shell.command(python_cmds[i]).args(...).spawn()
StartWithPythonSpawn(t) ==
    /\ At(t, "start_backend_server", "py_spawn")
    /\ \E ok \in BOOLEAN :
        LET me == task[t]
            pid == NewPid
        IN  IF ok
            THEN /\ procs' = Spawned("server")
                 /\ task' = [task EXCEPT ![t] =
                        [me EXCEPT !.pc = "py_store", !.child = pid,
                                   !.attempts = Append(@, pid)]]
            ELSE /\ procs' = procs
                 /\ task' = [task EXCEPT ![t] =
                        NextPython([me EXCEPT !.attempts = Append(@, NoChild)])]
    /\ UNCHANGED <<AppState, ServerProcess, McpProcess, lastEvent, calls>>

\* Variant for C9: the handle is stored only while the registry is empty.
StartWithPythonStore_KeepsFirst(t) ==
    /\ At(t, "start_backend_server", "py_store")
    /\ ServerProcess' = IF ServerProcess.child = NoChild
                        THEN [ServerProcess EXCEPT !.child = task[t].child]
                        ELSE ServerProcess
    /\ task' = [task EXCEPT ![t] = [@ EXCEPT !.k = 0, !.pc = "py_poll"]]
    /\ UNCHANGED <<AppState, McpProcess, procs, lastEvent, calls>>

StartWithPythonStore(t) ==
    /\ At(t, "start_backend_server", "py_store")
    /\ LockFree(t, "ServerProcess")
    /\ ServerProcess' = [ServerProcess EXCEPT !.child = task[t].child]
    /\ task' = [task EXCEPT ![t] = [@ EXCEPT !.k = 0, !.pc = "py_poll"]]
    /\ UNCHANGED <<AppState, McpProcess, procs, lastEvent, calls>>

\* Variant for C12: the loop counter wraps, so an endpoint that never
\* answers is polled without end.
StartWithPythonPoll_RetriesForever(t) ==
    /\ At(t, "start_backend_server", "py_poll")
    /\ task[t].k < ServerPollAttempts
    /\ \E h \in check_health :
       LET me == [task[t] EXCEPT !.h = h,
                    !.probes = IF @ < 2 * ServerPollAttempts + 1 THEN @ + 1 ELSE @,
                    !.k = (@ + 1) % ServerPollAttempts]
       IN  task' = [task EXCEPT ![t] =
              IF h THEN [me EXCEPT !.pc = "py_update"] ELSE me]
    /\ UNCHANGED <<AppState, ServerProcess, McpProcess, procs, lastEvent, calls>>

\* One iteration of `for _ in 0..15`: sleep(1), then check_health.
StartWithPythonPoll(t) ==
    /\ At(t, "start_backend_server", "py_poll")
    /\ task[t].k < ServerPollAttempts
    /\ \E h \in check_health :
       LET me == [task[t] EXCEPT !.h = h, !.probes = @ + 1, !.k = @ + 1]
       IN  task' = [task EXCEPT ![t] =
              IF h THEN [me EXCEPT !.pc = "py_update"]
              ELSE IF me.k < ServerPollAttempts THEN me
              ELSE NextPython(me)]
    /\ UNCHANGED <<AppState, ServerProcess, McpProcess, procs, lastEvent, calls>>

StartWithPythonUpdate(t) ==
    /\ At(t, "start_backend_server", "py_update")
    /\ LockFree(t, "AppState")
    /\ AppState' = update_state(AppState, TRUE)
    /\ task' = [task EXCEPT ![t] =
          [@ EXCEPT !.writes = Append(@, TRUE), !.pc = "py_emit"]]
    /\ UNCHANGED <<ServerProcess, McpProcess, procs, lastEvent, calls>>

StartWithPythonEmit(t) ==
    /\ At(t, "start_backend_server", "py_emit")
    /\ Emit(t, [task[t] EXCEPT !.pc = "done", !.ret = "Unit"], "server", "running")
    /\ UNCHANGED <<AppState, ServerProcess, McpProcess, procs, calls>>

\* Variant for C20: the failure path also resets the flag.
StartWithPythonFailed_ClearsFlag(t) ==
    /\ At(t, "start_backend_server", "py_failed")
    /\ AppState' = update_state(AppState, FALSE)
    /\ Emit(t, [task[t] EXCEPT !.pc = "done", !.ret = "Unit",
                               !.writes = Append(@, FALSE)], "server", "failed")
    /\ UNCHANGED <<ServerProcess, McpProcess, procs, calls>>

\* The emit after the loop over python_cmds.
StartWithPythonFailed(t) ==
    /\ At(t, "start_backend_server", "py_failed")
    /\ Emit(t, [task[t] EXCEPT !.pc = "done", !.ret = "Unit"], "server", "failed")
    /\ UNCHANGED <<AppState, ServerProcess, McpProcess, procs, calls>>

start_with_python(t) ==
    \/ StartWithPythonSpawn(t)
    \/ StartWithPythonStore(t)
    \/ StartWithPythonPoll(t)
    \/ StartWithPythonUpdate(t)
    \/ StartWithPythonEmit(t)
    \/ StartWithPythonFailed(t)

start_backend_server(t) == start_sidecar(t) \/ start_with_python(t)

-----------------------------------------------------------------------------
(* do_start_server / do_stop_server (the start_server, stop_server commands) *)

\* The command arrives; "Check if already running".
DoStartServerCheck(t) ==
    /\ CanCall(t)
    /\ calls' = calls + 1
    /\ \E h \in check_health :
           task' = [task EXCEPT ![t] =
              [Fresh("do_start_server") EXCEPT !.h = h, !.h0 = h, !.probes = 1,
                    !.pc = IF h THEN "ds_update" ELSE "ds_spawn"]]
    /\ UNCHANGED <<AppState, ServerProcess, McpProcess, procs, lastEvent>>

DoStartServerUpdate(t) ==
    /\ At(t, "do_start_server", "ds_update")
    /\ LockFree(t, "AppState")
    /\ AppState' = update_state(AppState, TRUE)
    /\ task' = [task EXCEPT ![t] =
          [@ EXCEPT !.writes = Append(@, TRUE), !.pc = "done", !.ret = "Ok"]]
    /\ UNCHANGED <<ServerProcess, McpProcess, procs, lastEvent, calls>>

\* Variant for C7: falling out of the loop over python_cmds returns Ok(()).
DoStartServerSpawn_OkOnFailure(t) ==
    /\ At(t, "do_start_server", "ds_spawn")
    /\ \E ok \in BOOLEAN :
        LET me == task[t]
            pid == NewPid
        IN  IF ok
            THEN /\ procs' = Spawned("server")
                 /\ task' = [task EXCEPT ![t] =
                        [me EXCEPT !.pc = "ds_store", !.child = pid,
                                   !.attempts = Append(@, pid)]]
            ELSE /\ procs' = procs
                 /\ task' = [task EXCEPT ![t] =
                        IF me.i < Len(python_cmds)
                        THEN [me EXCEPT !.i = @ + 1, !.attempts = Append(@, NoChild)]
                        ELSE [me EXCEPT !.attempts = Append(@, NoChild),
                                        !.pc = "done", !.ret = "Ok"]]
    /\ UNCHANGED <<AppState, ServerProcess, McpProcess, lastEvent, calls>>

DoStartServerSpawn(t) ==
    /\ At(t, "do_start_server", "ds_spawn")
    /\ \E ok \in BOOLEAN :
        LET me == task[t]
            pid == NewPid
        IN  IF ok
            THEN /\ procs' = Spawned("server")
                 /\ task' = [task EXCEPT ![t] =
                        [me EXCEPT !.pc = "ds_store", !.child = pid,
                                   !.attempts = Append(@, pid)]]
            ELSE /\ procs' = procs
                 /\ task' = [task EXCEPT ![t] =
                        IF me.i < Len(python_cmds)
                        THEN [me EXCEPT !.i = @ + 1, !.attempts = Append(@, NoChild)]
                        ELSE [me EXCEPT !.attempts = Append(@, NoChild),
                                        !.pc = "done", !.ret = "Err"]]
    /\ UNCHANGED <<AppState, ServerProcess, McpProcess, lastEvent, calls>>

\* Variant for C1: the service is marked running as soon as the child is stored.
DoStartServerStore_MarksRunning(t) ==
    /\ At(t, "do_start_server", "ds_store")
    /\ ServerProcess' = [ServerProcess EXCEPT !.child = task[t].child]
    /\ AppState' = update_state(AppState, TRUE)
    /\ task' = [task EXCEPT ![t] =
          [@ EXCEPT !.writes = Append(@, TRUE), !.pc = "done", !.ret = "Ok"]]
    /\ UNCHANGED <<McpProcess, procs, lastEvent, calls>>

\* proc.child = Some(child); return Ok(())
DoStartServerStore(t) ==
    /\ At(t, "do_start_server", "ds_store")
    /\ LockFree(t, "ServerProcess")
    /\ ServerProcess' = [ServerProcess EXCEPT !.child = task[t].child]
    /\ task' = [task EXCEPT ![t] = [@ EXCEPT !.pc = "done", !.ret = "Ok"]]
    /\ UNCHANGED <<AppState, McpProcess, procs, lastEvent, calls>>

do_start_server(t) ==
    \/ DoStartServerCheck(t)
    \/ DoStartServerUpdate(t)
    \/ DoStartServerSpawn(t)
    \/ DoStartServerStore(t)

\* The command arrives; proc.child.take() and child.kill()? under the registry lock.
DoStopServerTake(t) ==
    /\ CanCall(t)
    /\ LockFree(t, "ServerProcess")
    /\ calls' = calls + 1
    /\ ServerProcess' = [ServerProcess EXCEPT !.child = NoChild]
    /\ LET me == [Fresh("do_stop_server") EXCEPT !.child = ServerProcess.child]
       IN  IF me.child = NoChild
           THEN /\ procs' = procs
                /\ task' = [task EXCEPT ![t] = [me EXCEPT !.pc = "st_update"]]
           ELSE \E killed \in BOOLEAN :
                  IF killed
                  THEN /\ procs' = [procs EXCEPT ![me.child].alive = FALSE,
                                                 ![me.child].kills = @ + 1]
                       /\ task' = [task EXCEPT ![t] = [me EXCEPT !.pc = "st_update"]]
                  ELSE /\ procs' = [procs EXCEPT ![me.child].kills = @ + 1]
                       /\ task' = [task EXCEPT ![t] =
                              [me EXCEPT !.pc = "done", !.ret = "Err"]]
    /\ UNCHANGED <<AppState, McpProcess, lastEvent>>

\* Variant for C2: the state update of stop is left out.
DoStopServerUpdate_Skipped(t) ==
    /\ At(t, "do_stop_server", "st_update")
    /\ task' = [task EXCEPT ![t] = [@ EXCEPT !.pc = "st_emit"]]
    /\ UNCHANGED <<AppState, ServerProcess, McpProcess, procs, lastEvent, calls>>

DoStopServerUpdate(t) ==
    /\ At(t, "do_stop_server", "st_update")
    /\ LockFree(t, "AppState")
    /\ AppState' = update_state(AppState, FALSE)
    /\ task' = [task EXCEPT ![t] =
          [@ EXCEPT !.writes = Append(@, FALSE), !.pc = "st_emit"]]
    /\ UNCHANGED <<ServerProcess, McpProcess, procs, lastEvent, calls>>

DoStopServerEmit(t) ==
    /\ At(t, "do_stop_server", "st_emit")
    /\ Emit(t, [task[t] EXCEPT !.pc = "done", !.ret = "Ok"], "server", "stopped")
    /\ UNCHANGED <<AppState, ServerProcess, McpProcess, procs, calls>>

do_stop_server(t) ==
    \/ DoStopServerTake(t)
    \/ DoStopServerUpdate(t)
    \/ DoStopServerEmit(t)

-----------------------------------------------------------------------------
(* do_start_mcp / do_stop_mcp (the setup task and the MCP commands)        *)

\* Entry of do_start_mcp: from the setup task after its sleep(2), or as the
\* start_mcp_server command; "Check if already running".
DoStartMcpCheck(t) ==
    /\ \/ t = "setup_mcp" /\ task[t].pc = "init" /\ calls' = calls
       \/ CanCall(t) /\ calls' = calls + 1
    /\ \E h \in check_mcp_port :
           task' = [task EXCEPT ![t] =
              [Fresh("do_start_mcp") EXCEPT !.h = h, !.h0 = h, !.probes = 1,
                    !.pc = IF h THEN "dm_running" ELSE "dm_spawn"]]
    /\ UNCHANGED <<AppState, ServerProcess, McpProcess, procs, lastEvent>>

\* update_mcp_state(app, true); return Ok(()) of the already-running branch.
DoStartMcpRunning(t) ==
    /\ At(t, "do_start_mcp", "dm_running")
    /\ LockFree(t, "AppState")
    /\ AppState' = update_mcp_state(AppState, TRUE)
    /\ task' = [task EXCEPT ![t] =
          [@ EXCEPT !.writes = Append(@, TRUE), !.pc = "done", !.ret = "Ok"]]
    /\ UNCHANGED <<ServerProcess, McpProcess, procs, lastEvent, calls>>

DoStartMcpSpawn(t) ==
    /\ At(t, "do_start_mcp", "dm_spawn")
    /\ \E ok \in BOOLEAN :
        LET me == task[t]
            pid == NewPid
        IN  IF ok
            THEN /\ procs' = Spawned("mcp")
                 /\ task' = [task EXCEPT ![t] =
                        [me EXCEPT !.pc = "dm_store", !.child = pid,
                                   !.attempts = Append(@, pid)]]
            ELSE /\ procs' = procs
                 /\ task' = [task EXCEPT ![t] =
                        IF me.i < Len(python_cmds)
                        THEN [me EXCEPT !.i = @ + 1, !.attempts = Append(@, NoChild)]
                        ELSE [me EXCEPT !.attempts = Append(@, NoChild),
                                        !.pc = "done", !.ret = "Err"]]
    /\ UNCHANGED <<AppState, ServerProcess, McpProcess, lastEvent, calls>>

\* Variant for C15: the handle being replaced is killed first.
DoStartMcpStore_KillsPrevious(t) ==
    /\ At(t, "do_start_mcp", "dm_store")
    /\ LockFree(t, "McpProcess")
    /\ McpProcess' = [McpProcess EXCEPT !.child = task[t].child]
    /\ procs' = IF McpProcess.child = NoChild THEN procs
                ELSE [procs EXCEPT ![McpProcess.child].alive = FALSE,
                                   ![McpProcess.child].kills = @ + 1]
    /\ task' = [task EXCEPT ![t] = [@ EXCEPT !.k = 0, !.pc = "dm_poll"]]
    /\ UNCHANGED <<AppState, ServerProcess, lastEvent, calls>>

\* *proc = McpProcess { child: Some(child) } under the registry lock.
DoStartMcpStore(t) ==
    /\ At(t, "do_start_mcp", "dm_store")
    /\ LockFree(t, "McpProcess")
    /\ McpProcess' = [McpProcess EXCEPT !.child = task[t].child]
    /\ task' = [task EXCEPT ![t] = [@ EXCEPT !.k = 0, !.pc = "dm_poll"]]
    /\ UNCHANGED <<AppState, ServerProcess, procs, lastEvent, calls>>

\* Variant for C13: the loop ends as soon as the registry no longer holds
\* the child it is waiting for.
DoStartMcpPoll_WatchesRegistry(t) ==
    /\ At(t, "do_start_mcp", "dm_poll")
    /\ task[t].k < McpPollAttempts
    /\ IF McpProcess.child # task[t].child
       THEN task' = [task EXCEPT ![t] = [@ EXCEPT !.pc = "done", !.ret = "Ok"]]
       ELSE \E h \in check_mcp_port :
              LET me == [task[t] EXCEPT !.h = h, !.probes = @ + 1, !.k = @ + 1]
              IN  task' = [task EXCEPT ![t] =
                     IF h THEN [me EXCEPT !.pc = "dm_update"]
                     ELSE IF me.k < McpPollAttempts THEN me
                     ELSE [me EXCEPT !.pc = "done", !.ret = "Ok"]]
    /\ UNCHANGED <<AppState, ServerProcess, McpProcess, procs, lastEvent, calls>>

\* One iteration of `for _ in 0..10`: sleep(1), then check_mcp_port; the
\* return Ok(()) after the loop when the last iteration fails.
DoStartMcpPoll(t) ==
    /\ At(t, "do_start_mcp", "dm_poll")
    /\ task[t].k < McpPollAttempts
    /\ \E h \in check_mcp_port :
       LET me == [task[t] EXCEPT !.h = h, !.probes = @ + 1, !.k = @ + 1]
       IN  task' = [task EXCEPT ![t] =
              IF h THEN [me EXCEPT !.pc = "dm_update"]
              ELSE IF me.k < McpPollAttempts THEN me
              ELSE [me EXCEPT !.pc = "done", !.ret = "Ok"]]
    /\ UNCHANGED <<AppState, ServerProcess, McpProcess, procs, lastEvent, calls>>

DoStartMcpUpdate(t) ==
    /\ At(t, "do_start_mcp", "dm_update")
    /\ LockFree(t, "AppState")
    /\ AppState' = update_mcp_state(AppState, TRUE)
    /\ task' = [task EXCEPT ![t] =
          [@ EXCEPT !.writes = Append(@, TRUE), !.pc = "dm_emit"]]
    /\ UNCHANGED <<ServerProcess, McpProcess, procs, lastEvent, calls>>

DoStartMcpEmit(t) ==
    /\ At(t, "do_start_mcp", "dm_emit")
    /\ Emit(t, [task[t] EXCEPT !.pc = "done", !.ret = "Ok"], "mcp", "running")
    /\ UNCHANGED <<AppState, ServerProcess, McpProcess, procs, calls>>

do_start_mcp(t) ==
    \/ DoStartMcpCheck(t)
    \/ DoStartMcpRunning(t)
    \/ DoStartMcpSpawn(t)
    \/ DoStartMcpStore(t)
    \/ DoStartMcpPoll(t)
    \/ DoStartMcpUpdate(t)
    \/ DoStartMcpEmit(t)

\* Variant for C17: the child is killed through a reference and its handle
\* stays in the registry.
DoStopMcpTake_KeepsHandle(t) ==
    /\ CanCall(t)
    /\ LockFree(t, "McpProcess")
    /\ calls' = calls + 1
    /\ LET me == [Fresh("do_stop_mcp") EXCEPT !.child = McpProcess.child]
       IN  IF me.child = NoChild
           THEN /\ procs' = procs
                /\ task' = [task EXCEPT ![t] = [me EXCEPT !.pc = "sm_update"]]
           ELSE \E killed \in BOOLEAN :
                  IF killed
                  THEN /\ procs' = [procs EXCEPT ![me.child].alive = FALSE,
                                                 ![me.child].kills = @ + 1]
                       /\ task' = [task EXCEPT ![t] = [me EXCEPT !.pc = "sm_update"]]
                  ELSE /\ procs' = [procs EXCEPT ![me.child].kills = @ + 1]
                       /\ task' = [task EXCEPT ![t] =
                              [me EXCEPT !.pc = "done", !.ret = "Err"]]
    /\ UNCHANGED <<AppState, ServerProcess, McpProcess, lastEvent>>

\* The command arrives; proc.child.take() and child.kill()? under the registry lock.
DoStopMcpTake(t) ==
    /\ CanCall(t)
    /\ LockFree(t, "McpProcess")
    /\ calls' = calls + 1
    /\ McpProcess' = [McpProcess EXCEPT !.child = NoChild]
    /\ LET me == [Fresh("do_stop_mcp") EXCEPT !.child = McpProcess.child]
       IN  IF me.child = NoChild
           THEN /\ procs' = procs
                /\ task' = [task EXCEPT ![t] = [me EXCEPT !.pc = "sm_update"]]
           ELSE \E killed \in BOOLEAN :
                  IF killed
                  THEN /\ procs' = [procs EXCEPT ![me.child].alive = FALSE,
                                                 ![me.child].kills = @ + 1]
                       /\ task' = [task EXCEPT ![t] = [me EXCEPT !.pc = "sm_update"]]
                  ELSE /\ procs' = [procs EXCEPT ![me.child].kills = @ + 1]
                       /\ task' = [task EXCEPT ![t] =
                              [me EXCEPT !.pc = "done", !.ret = "Err"]]
    /\ UNCHANGED <<AppState, ServerProcess, lastEvent>>

DoStopMcpUpdate(t) ==
    /\ At(t, "do_stop_mcp", "sm_update")
    /\ LockFree(t, "AppState")
    /\ AppState' = update_mcp_state(AppState, FALSE)
    /\ task' = [task EXCEPT ![t] =
          [@ EXCEPT !.writes = Append(@, FALSE), !.pc = "sm_emit"]]
    /\ UNCHANGED <<ServerProcess, McpProcess, procs, lastEvent, calls>>

DoStopMcpEmit(t) ==
    /\ At(t, "do_stop_mcp", "sm_emit")
    /\ Emit(t, [task[t] EXCEPT !.pc = "done", !.ret = "Ok"], "mcp", "stopped")
    /\ UNCHANGED <<AppState, ServerProcess, McpProcess, procs, calls>>

do_stop_mcp(t) ==
    \/ DoStopMcpTake(t)
    \/ DoStopMcpUpdate(t)
    \/ DoStopMcpEmit(t)

-----------------------------------------------------------------------------
(* The status queries of lib.rs.                                           *)

\* Ok(bool) as the frontend receives it.
BoolResult(b) == IF b THEN "Ok(true)" ELSE "Ok(false)"

\* Variant for C11: the query probes the endpoint and commits the answer.
GetServerStatus_Refreshes(t) ==
    /\ CanCall(t)
    /\ LockFree(t, "AppState")
    /\ calls' = calls + 1
    /\ \E h \in check_health :
         /\ AppState' = update_state(AppState, h)
         /\ task' = [task EXCEPT ![t] =
               [Fresh("get_server_status") EXCEPT !.pc = "done", !.h = h,
                     !.probes = 1, !.ret = BoolResult(h)]]
    /\ UNCHANGED <<ServerProcess, McpProcess, procs, lastEvent>>

\* let s = state.lock()?; Ok(s.server_running)
GetServerStatus(t) ==
    /\ CanCall(t)
    /\ LockFree(t, "AppState")
    /\ calls' = calls + 1
    /\ task' = [task EXCEPT ![t] =
          [Fresh("get_server_status") EXCEPT !.pc = "done",
                !.ret = BoolResult(get_server_status)]]
    /\ UNCHANGED <<AppState, ServerProcess, McpProcess, procs, lastEvent>>

\* let s = state.lock()?; Ok(s.api_url.clone())
GetApiUrl(t) ==
    /\ CanCall(t)
    /\ LockFree(t, "AppState")
    /\ calls' = calls + 1
    /\ task' = [task EXCEPT ![t] =
          [Fresh("get_api_url") EXCEPT !.pc = "done", !.ret = get_api_url]]
    /\ UNCHANGED <<AppState, ServerProcess, McpProcess, procs, lastEvent>>

\* Variant for C16: the guard on AppState is kept alive across the GET.
CheckServerHealthUrl_KeepsGuard(t) ==
    /\ CanCall(t)
    /\ LockFree(t, "AppState")
    /\ calls' = calls + 1
    /\ task' = [task EXCEPT ![t] =
          [Fresh("check_server_health") EXCEPT !.pc = "ch_get",
                !.url = <<AppState.api_url, "/health">>,
                !.held = {"AppState"}]]
    /\ UNCHANGED <<AppState, ServerProcess, McpProcess, procs, lastEvent>>

\* let url = { let s = state.lock()?; format!("{}/health", s.api_url) };
CheckServerHealthUrl(t) ==
    /\ CanCall(t)
    /\ LockFree(t, "AppState")
    /\ calls' = calls + 1
    /\ task' = [task EXCEPT ![t] =
          [Fresh("check_server_health") EXCEPT !.pc = "ch_get",
                !.url = <<AppState.api_url, "/health">>]]
    /\ UNCHANGED <<AppState, ServerProcess, McpProcess, procs, lastEvent>>

\* reqwest::get(&url).await reduced to Ok(bool).
CheckServerHealthGet(t) ==
    /\ At(t, "check_server_health", "ch_get")
    /\ \E h \in check_health :
         task' = [task EXCEPT ![t] =
            [@ EXCEPT !.h = h, !.probes = @ + 1, !.held = {},
                      !.pc = "done", !.ret = BoolResult(h)]]
    /\ UNCHANGED <<AppState, ServerProcess, McpProcess, procs, lastEvent, calls>>

check_server_health(t) ==
    \/ CheckServerHealthUrl(t)
    \/ CheckServerHealthGet(t)

-----------------------------------------------------------------------------
\* The result reaches the caller: a command's slot is free for the next
\* command, a task spawned by setup ends.
Return(t) ==
    /\ task[t].pc = "done"
    /\ task' = [task EXCEPT ![t] = NoLocals(IF t = "command" THEN "idle" ELSE "exit")]
    /\ UNCHANGED <<AppState, ServerProcess, McpProcess, procs, lastEvent, calls>>

Step(t) ==
    \/ start_backend_server(t)
    \/ do_start_server(t)
    \/ do_stop_server(t)
    \/ do_start_mcp(t)
    \/ do_stop_mcp(t)
    \/ GetServerStatus(t)
    \/ GetApiUrl(t)
    \/ check_server_health(t)
    \/ Return(t)

\* Tasks run concurrently on the async runtime.
Next == \E t \in Tasks : Step(t)

Spec == Init /\ [][Next]_vars

\* No other call is in flight while t executes.
Quiet(t) == \A u \in Tasks \ {t} : task[u].pc \in {"init", "idle", "exit"}

\* Calls that do not overlap: a call starts only after the previous one returned.
NextSeq ==
    \E t \in Tasks :
        \/ Quiet(t) /\ StartSidecarSpawn(t)
        \/ Quiet(t) /\ StartSidecarStore(t)
        \/ Quiet(t) /\ StartSidecarProbe(t)
        \/ Quiet(t) /\ StartSidecarUpdate(t)
        \/ Quiet(t) /\ StartSidecarEmit(t)
        \/ Quiet(t) /\ StartWithPythonSpawn(t)
        \/ Quiet(t) /\ StartWithPythonStore(t)
        \/ Quiet(t) /\ StartWithPythonPoll(t)
        \/ Quiet(t) /\ StartWithPythonUpdate(t)
        \/ Quiet(t) /\ StartWithPythonEmit(t)
        \/ Quiet(t) /\ StartWithPythonFailed(t)
        \/ Quiet(t) /\ DoStartServerCheck(t)
        \/ Quiet(t) /\ DoStartServerUpdate(t)
        \/ Quiet(t) /\ DoStartServerSpawn(t)
        \/ Quiet(t) /\ DoStartServerStore(t)
        \/ Quiet(t) /\ DoStopServerTake(t)
        \/ Quiet(t) /\ DoStopServerUpdate(t)
        \/ Quiet(t) /\ DoStopServerEmit(t)
        \/ Quiet(t) /\ DoStartMcpCheck(t)
        \/ Quiet(t) /\ DoStartMcpRunning(t)
        \/ Quiet(t) /\ DoStartMcpSpawn(t)
        \/ Quiet(t) /\ DoStartMcpStore(t)
        \/ Quiet(t) /\ DoStartMcpPoll(t)
        \/ Quiet(t) /\ DoStartMcpUpdate(t)
        \/ Quiet(t) /\ DoStartMcpEmit(t)
        \/ Quiet(t) /\ DoStopMcpTake(t)
        \/ Quiet(t) /\ DoStopMcpUpdate(t)
        \/ Quiet(t) /\ DoStopMcpEmit(t)
        \/ Quiet(t) /\ GetServerStatus(t)
        \/ Quiet(t) /\ GetApiUrl(t)
        \/ Quiet(t) /\ CheckServerHealthUrl(t)
        \/ Quiet(t) /\ CheckServerHealthGet(t)
        \/ Quiet(t) /\ Return(t)

SpecSeq == Init /\ [][NextSeq]_vars

\* The async runtime keeps polling every task that can make a step, and the
\* frontend consumes every result.
SpecSeqFair ==
    Init /\ [][NextSeq]_vars /\ \A t \in Tasks : WF_vars(Quiet(t) /\ Step(t))

TypeOK ==
    /\ AppState.server_running \in BOOLEAN /\ AppState.mcp_running \in BOOLEAN
    /\ ServerProcess.child \in 0..Len(procs) /\ McpProcess.child \in 0..Len(procs)
    /\ \A t \in Tasks : task[t].probes \in 0..(2 * ServerPollAttempts + 1)
    /\ calls \in 0..MaxCalls

\* The calls on the MCP server overlap: the task spawned by setup runs
\* do_start_mcp while the frontend issues start_mcp_server, stop_mcp_server
\* and the status queries.
NextMcp ==
    \E t \in {"setup_mcp", "command"} :
        \/ DoStartMcpCheck(t)
        \/ DoStartMcpRunning(t)
        \/ DoStartMcpSpawn(t)
        \/ DoStartMcpStore(t)
        \/ DoStartMcpPoll(t)
        \/ DoStartMcpUpdate(t)
        \/ DoStartMcpEmit(t)
        \/ DoStopMcpTake(t)
        \/ DoStopMcpUpdate(t)
        \/ DoStopMcpEmit(t)
        \/ GetServerStatus(t)
        \/ GetApiUrl(t)
        \/ CheckServerHealthUrl(t)
        \/ CheckServerHealthGet(t)
        \/ Return(t)

SpecMcp == Init /\ [][NextMcp]_vars

\* The two tasks spawned by setup, with no command from the frontend.  The
\* backend task is spawned first and runs at once; the MCP task first
\* sleeps 2 seconds, so its do_start_mcp begins after start_backend_server
\* has begun, and nothing else orders the two.
NextSetup ==
    \E t \in {"setup_backend", "setup_mcp"} :
        \/ StartSidecarSpawn(t)
        \/ StartSidecarStore(t)
        \/ StartSidecarProbe(t)
        \/ StartSidecarUpdate(t)
        \/ StartSidecarEmit(t)
        \/ StartWithPythonSpawn(t)
        \/ StartWithPythonStore(t)
        \/ StartWithPythonPoll(t)
        \/ StartWithPythonUpdate(t)
        \/ StartWithPythonEmit(t)
        \/ StartWithPythonFailed(t)
        \/ task["setup_backend"].pc # "init" /\ DoStartMcpCheck(t)
        \/ DoStartMcpRunning(t)
        \/ DoStartMcpSpawn(t)
        \/ DoStartMcpStore(t)
        \/ DoStartMcpPoll(t)
        \/ DoStartMcpUpdate(t)
        \/ DoStartMcpEmit(t)
        \/ Return(t)

SpecSetup == Init /\ [][NextSetup]_vars

-----------------------------------------------------------------------------
(* Properties.  A call that has returned and whose result has not yet been *)
(* consumed is at pc = "done"; its locals then describe the whole call.    *)

Done(t) == task[t].pc = "done"

Last(seq) == seq[Len(seq)]

Count(seq, x) == Cardinality({n \in 1..Len(seq) : seq[n] = x})

Has(seq, x) == \E n \in 1..Len(seq) : seq[n] = x

\* Indices of the launch strategies of a call whose spawn returned a child.
Spawns(me) == {n \in 1..Len(me.attempts) : me.attempts[n] # NoChild}

\* The child returned by the last strategy that spawned.
LastSpawn(me) ==
    me.attempts[CHOOSE n \in Spawns(me) : \A m \in Spawns(me) : m <= n]

\* C1: the running flag of a service is set to true, and "running" is
\* emitted, only by a start whose latest health probe of that service
\* succeeded; in particular never by the step that spawns or stores a child.
C1_RunningOnlyAfterHealthyProbe ==
    [][ /\ \A t \in Tasks :
             LET a == task[t]
                 b == task'[t]
             IN  ( /\ b.op = a.op
                   /\ \/ Len(b.writes) > Len(a.writes) /\ Last(b.writes) = TRUE
                      \/ Len(b.emitted) > Len(a.emitted) /\ Last(b.emitted) = "running" )
                 => a.op \in StartOps /\ a.h = TRUE /\ a.probes >= 1
        /\ \A svc \in Services :
             ( \/ Running(svc)' /\ ~Running(svc)
               \/ lastEvent'[Channel(svc)] = "running" /\ lastEvent[Channel(svc)] # "running" )
             => \E t \in Tasks :
                  /\ task[t].op \in StartOps /\ SvcOf(task[t].op) = svc
                  /\ task[t].h = TRUE /\ task[t].probes >= 1
                  /\ task'[t] # task[t]
      ]_vars

\* C1 witness: do_start_mcp spawned a child, a poll probe succeeded, and the
\* flag was set and "running" emitted.
C1_Witness ==
    \E t \in Tasks :
        /\ Done(t) /\ task[t].op = "do_start_mcp"
        /\ Spawns(task[t]) # {} /\ task[t].h
        /\ task[t].writes = <<TRUE>> /\ task[t].emitted = <<"running">>
        /\ AppState.mcp_running

\* C2: a stop that finds no child handle in the registry returns Ok, leaves
\* the running flag false and emits exactly one "stopped", whatever the
\* state before and however often it is repeated.
C2_IdempotentStop ==
    \A t \in Tasks :
        (Done(t) /\ task[t].op \in StopOps /\ task[t].child = NoChild)
        => /\ task[t].ret = "Ok"
           /\ ~Running(SvcOf(task[t].op))
           /\ task[t].emitted = <<"stopped">>
           /\ lastEvent[Channel(SvcOf(task[t].op))] = "stopped"

\* C2 witness: a second command, a stop with an empty registry, has returned Ok.
C2_Witness ==
    \E t \in Tasks :
        /\ Done(t) /\ task[t].op = "do_stop_server" /\ task[t].child = NoChild
        /\ calls >= 2
        /\ task[t].ret = "Ok" /\ task[t].emitted = <<"stopped">>
        /\ ~AppState.server_running

\* C3: when stop finds a child and kill fails, the error is returned and the
\* same call still sets the running flag to false and emits "stopped".
C3_KillFailureStillStops ==
    \A t \in Tasks :
        (Done(t) /\ task[t].op \in StopOps /\ task[t].child # NoChild
                 /\ task[t].ret = "Err")
        => /\ task[t].writes = <<FALSE>>
           /\ ~Running(SvcOf(task[t].op))
           /\ task[t].emitted = <<"stopped">>

\* C4: when a start or stop call (calls not overlapping) has completed, the
\* running flag get_status returns is the one the last notification of that
\* service implies: "running" true, "stopped" and "failed" false.
C4_StatusMatchesLastNotification ==
    \A t \in Tasks :
        (Done(t) /\ task[t].op \in StartOps \cup StopOps)
        => LET svc == SvcOf(task[t].op)
               e == lastEvent[Channel(svc)]
           IN  /\ e = "running" => Running(svc)
               /\ e \in {"stopped", "failed"} => ~Running(svc)

\* The poll budget of a service.
PollBudget(svc) == IF svc = "server" THEN ServerPollAttempts ELSE McpPollAttempts

\* The start reported failure: a "failed" notification or an error result.
ReportedFailure(me) == Has(me.emitted, "failed") \/ me.ret = "Err"

\* A child was spawned and the poll loop ran out: no probe of the call
\* succeeded and at least the poll budget of probes was issued.
BudgetExhausted(me) ==
    /\ Spawns(me) # {}
    /\ ~me.h
    /\ me.probes >= PollBudget(SvcOf(me.op))

\* C5: when no health probe ever succeeds, a start that polls issues exactly
\* the poll budget of probes (15 for the backend, 10 for the MCP server), no
\* more, and then reports failure.
C5_ExactPollBudget ==
    \A t \in Tasks :
        ( /\ Done(t) /\ task[t].op \in {"start_backend_server", "do_start_mcp"}
          /\ BudgetExhausted(task[t]) )
        => /\ task[t].probes = PollBudget(SvcOf(task[t].op))
           /\ ReportedFailure(task[t])

\* The start completed without reporting failure.
Succeeded(me) == me.ret \in {"Ok", "Unit"} /\ ~Has(me.emitted, "failed")

\* C6: a start invoked while the health endpoint of its service answers
\* success makes no spawn attempt, leaves the registry handle as it was, sets
\* the running flag and succeeds.
C6_NoSpawnWhenHealthy ==
    \A t \in Tasks :
        (Done(t) /\ task[t].op \in StartOps /\ task[t].h0)
        => /\ task[t].attempts = <<>>
           /\ Child(SvcOf(task[t].op)) = task[t].reg0
           /\ Running(SvcOf(task[t].op))
           /\ Succeeded(task[t])

\* Every launch strategy of the call was tried and none spawned a child.
AllStrategiesFailed(me) == me.attempts # <<>> /\ Spawns(me) = {}

C8_BudgetExhausted ==
    \A t \in Tasks :
        ( /\ Done(t) /\ task[t].op \in {"start_backend_server", "do_start_mcp"}
          /\ BudgetExhausted(task[t]) )
        => /\ Has(task[t].emitted, "failed")
           /\ ~Running(SvcOf(task[t].op))
           /\ procs[LastSpawn(task[t])].alive
           /\ Child(SvcOf(task[t].op)) = LastSpawn(task[t])

\* An earlier strategy failed to spawn and a later one spawned a child.
Fallthrough(me) ==
    \E a, b \in 1..Len(me.attempts) :
        a < b /\ me.attempts[a] = NoChild /\ me.attempts[b] # NoChild

\* The probes start_backend_server has issued once every child it spawned has
\* used up its probes: one for the sidecar, ServerPollAttempts per interpreter.
ExhaustedProbes(me) ==
    (IF me.attempts[1] # NoChild THEN 1 ELSE 0)
    + ServerPollAttempts * Cardinality(Spawns(me) \ {1})

FifthProbeScenario(me) == IF me.probes <= 4 THEN ~me.h ELSE me.probes = 5 /\ me.h

\* C10: under that scenario a start of the backend that spawned a child
\* returns success after the 5th probe, get_server_status is then true, and
\* exactly one "running" notification was emitted.
C10_FifthProbeScenario ==
    \A t \in Tasks :
        ( /\ Done(t) /\ task[t].op \in {"start_backend_server", "do_start_server"}
          /\ Spawns(task[t]) # {} /\ FifthProbeScenario(task[t]) )
        => /\ Succeeded(task[t])
           /\ task[t].probes = 5
           /\ get_server_status
           /\ Count(task[t].emitted, "running") = 1

\* C11: a step of get_server_status, get_api_url or check_server_health
\* leaves the flags, urls and ports of AppState, both registry entries, the
\* children and the notification channels unchanged, whatever the probe
\* answers; get_server_status and get_api_url return in that one step, with
\* no probe, the value committed in AppState.
C11_QueriesReadOnly ==
    [][ \A t \in Tasks :
          LET b == task'[t]
          IN  (b.op \in QueryOps /\ b # task[t])
              => /\ UNCHANGED <<AppState, ServerProcess, McpProcess, procs, lastEvent>>
                 /\ b.emitted = <<>> /\ b.writes = <<>>
                 /\ b.op = "get_server_status"
                      => /\ b.probes = 0 /\ b.pc = "done"
                         /\ b.ret = BoolResult(AppState.server_running)
                 /\ b.op = "get_api_url"
                      => /\ b.probes = 0 /\ b.pc = "done"
                         /\ b.ret = AppState.api_url
      ]_vars

\* C11 witness: check_server_health answered true while the committed flag
\* is, and stays, false.
C11_Witness ==
    \E t \in Tasks :
        /\ Done(t) /\ task[t].op = "check_server_health"
        /\ task[t].h /\ task[t].probes = 1 /\ task[t].ret = "Ok(true)"
        /\ ~AppState.server_running
        /\ lastEvent["server-status"] = "none"

\* The most probes one call can make: the sidecar's single probe and the
\* full poll budget for each entry of python_cmds.
MaxProbes == 1 + Len(python_cmds) * ServerPollAttempts

Polling(me, svc) ==
    /\ me.op \in StartOps /\ SvcOf(me.op) = svc
    /\ me.pc \in {"py_poll", "dm_poll"}

\* C13: a step of do_stop_server / do_stop_mcp changes nothing in the
\* locals of any other task, so a start polling for the same service stays
\* in its loop; and a start whose probe succeeded then sets the flag and
\* emits "running" whatever has happened to the registry meanwhile.
C13_StopNeverCancelsStart ==
    [][ \A t \in Tasks :
          /\ (task'[t].op \in StopOps /\ task'[t] # task[t])
               => \A u \in Tasks \ {t} : task'[u] = task[u]
          /\ (Polling(task[t], "mcp") /\ task'[t] # task[t])
               => \/ task'[t].pc = "dm_poll" /\ ~task'[t].h
                  \/ task'[t].pc = "dm_update" /\ task'[t].h
                  \/ task'[t].pc = "done" /\ ~task'[t].h
                       /\ task'[t].k = McpPollAttempts
          /\ (task[t].pc = "dm_update" /\ task'[t] # task[t])
               => AppState'.mcp_running /\ task'[t].pc = "dm_emit"
          /\ (task[t].pc = "dm_emit" /\ task'[t] # task[t])
               => lastEvent'["mcp-status"] = "running" /\ task'[t].pc = "done"
      ]_vars

\* C13 witness: do_stop_mcp has completed (it took and killed the child the
\* start had spawned, wrote false, emitted "stopped") and the overlapping
\* do_start_mcp then finished its poll loop: the flag is true, "running" is
\* the last notification, and the registry holds no handle.
C13_Witness ==
    \E t, u \in Tasks :
        /\ Done(u) /\ task[u].op = "do_stop_mcp"
        /\ task[u].emitted = <<"stopped">> /\ task[u].writes = <<FALSE>>
        /\ Done(t) /\ task[t].op = "do_start_mcp"
        /\ Spawns(task[t]) # {} /\ task[u].child = LastSpawn(task[t])
        /\ ~procs[task[u].child].alive
        /\ task[t].emitted = <<"running">> /\ task[t].writes = <<TRUE>>
        /\ AppState.mcp_running
        /\ lastEvent["mcp-status"] = "running"
        /\ McpProcess.child = NoChild

\* The children of svc that were spawned and not killed.
Live(svc) == {p \in 1..Len(procs) : procs[p].svc = svc /\ procs[p].alive}

\* A spawn of svc has returned and its handle is about to be stored.
Storing(svc) ==
    \E t \in Tasks :
        /\ task[t].op \in StartOps /\ SvcOf(task[t].op) = svc
        /\ task[t].pc \in {"sc_store", "py_store", "ds_store", "dm_store"}

\* C14: for each service at most one child spawned by the supervisor is
\* alive, and it is the one whose handle the registry entry holds (a child
\* just spawned is given until its handle is stored).
C14_AtMostOneLiveChild ==
    \A svc \in Services :
        ~Storing(svc)
        => /\ Cardinality(Live(svc)) <= 1
           /\ Live(svc) \subseteq {Child(svc)}

\* C15: the pre-check of a start looks only at the health endpoint: a start
\* whose pre-check failed goes on to spawn whatever the registry holds and
\* whatever other start is in flight, and the step that stores the new
\* handle replaces the registry entry and kills no child.
C15_DoubleStartReplaces ==
    [][ \A t \in Tasks :
          /\ (task'[t].op = "do_start_mcp" /\ task[t].op # "do_start_mcp")
               => task'[t].pc = IF task'[t].h0 THEN "dm_running" ELSE "dm_spawn"
          /\ (task[t].pc = "dm_spawn" /\ task'[t] # task[t])
               => \/ task'[t].pc = "dm_store" /\ task'[t].child \in Live("mcp")'
                  \/ Last(task'[t].attempts) = NoChild
          /\ (task[t].pc = "dm_store" /\ task'[t] # task[t])
               => /\ McpProcess'.child = task[t].child
                  /\ procs' = procs
      ]_vars

\* C15 witness: two overlapping do_start_mcp calls both passed the
\* pre-check and both spawned; the handle stored second replaced the first
\* and both children are alive.
C15_Witness ==
    \E t, u \in Tasks :
        /\ t # u
        /\ task[t].op = "do_start_mcp" /\ task[u].op = "do_start_mcp"
        /\ ~task[t].h0 /\ ~task[u].h0
        /\ task[t].pc = "dm_poll" /\ task[u].pc = "dm_poll"
        /\ task[t].child # task[u].child
        /\ {task[t].child, task[u].child} \subseteq Live("mcp")
        /\ task[u].reg0 = NoChild
        /\ McpProcess.child = task[u].child

\* The task is inside a call: suspended at an await of the call or between
\* two of its lock blocks.
InFlight(t) == task[t].pc \notin {"init", "idle", "exit", "done"}

Taken(t) == IF task[t].op \in StopOps THEN task[t].child ELSE NoChild

\* C17 as stated: a stop that found a handle in the registry has, when it
\* returns with Ok or Err, requested termination of that child exactly
\* once, and the registry entry of its service is empty.
C17_StopLeavesRegistryEmpty ==
    \A t \in Tasks :
        (Done(t) /\ task[t].op \in StopOps /\ task[t].reg0 # NoChild)
        => /\ task[t].ret \in {"Ok", "Err"}
           /\ procs[task[t].reg0].kills = 1
           /\ Child(SvcOf(task[t].op)) = NoChild

\* C17 amended: the first step of do_stop_server / do_stop_mcp empties the
\* registry entry of its service and, when the entry held a child, requests
\* termination of that child once and of no other child; no other step
\* requests a termination; no child is ever asked to terminate twice; and
\* when the stop has returned, with Ok or Err, the entry does not hold the
\* child it took: it is empty or holds a child, never asked to terminate,
\* that a start stored after the take.
C17_StopTakesHandle ==
    [][ /\ \A t \in Tasks : \A svc \in Services :
             LET c == Child(svc)
             IN  ( /\ task'[t].op \in StopOps /\ task[t].op \notin StopOps
                   /\ SvcOf(task'[t].op) = svc )
                 => /\ Child(svc)' = NoChild
                    /\ task'[t].child = c
                    /\ Len(procs') = Len(procs)
                    /\ \A p \in 1..Len(procs) :
                          procs'[p].kills =
                             IF p = c THEN procs[p].kills + 1 ELSE procs[p].kills
        /\ (\A t \in Tasks : ~(task'[t].op \in StopOps /\ task[t].op \notin StopOps))
             => \A p \in 1..Len(procs) :
                  p <= Len(procs') /\ procs'[p].kills <= procs[p].kills
        /\ \A p \in 1..Len(procs') : procs'[p].kills <= 1
        /\ \A t \in Tasks : \A svc \in Services :
             ( /\ task'[t].pc = "done" /\ task'[t].op \in StopOps
               /\ SvcOf(task'[t].op) = svc )
             => /\ task'[t].ret \in {"Ok", "Err"}
                /\ \/ Child(svc)' = NoChild
                   \/ /\ Child(svc)' # task'[t].child
                      /\ procs'[Child(svc)'].kills = 0
      ]_vars

\* C17 witness: a stop took the child the registry held and requested its
\* termination once; a start that overlapped it stored a new child after
\* the take, so the entry is not empty when the stop has returned.
C17_Witness ==
    \E t \in Tasks :
        /\ Done(t) /\ task[t].op \in StopOps
        /\ Taken(t) # NoChild /\ Taken(t) = task[t].reg0
        /\ procs[Taken(t)].kills = 1
        /\ Child(SvcOf(task[t].op)) \notin {NoChild, Taken(t)}
        /\ procs[Child(SvcOf(task[t].op))].kills = 0

\* C18: the task spawned by setup for the MCP server has not begun
\* do_start_mcp (its pre-check, and so its spawn) unless start_backend_server
\* has returned or has reported the backend running.
C18_McpWaitsForBackend ==
    task["setup_mcp"].pc # "init"
    => \/ task["setup_backend"].pc \in {"done", "exit"}
       \/ Has(task["setup_backend"].emitted, "running")
       \/ AppState.server_running

\* The operation that task t executes in a step: the one it enters or the
\* one it is in.
StepOp(a, b) == IF b.op # "none" THEN b.op ELSE a.op

\* C19: a step of start_backend_server, do_start_server or do_stop_server
\* leaves mcp_running, McpProcess.child, the live MCP children and the
\* "mcp-status" channel unchanged; a step of do_start_mcp or do_stop_mcp
\* leaves server_running, ServerProcess.child, the live backend children
\* and "server-status" unchanged; and no step changes api_url, mcp_url or the
\* ports.
C19_ServiceIndependence ==
    [][ /\ AppState'.api_url = AppState.api_url
        /\ AppState'.mcp_url = AppState.mcp_url
        /\ AppState'.server_port = AppState.server_port
        /\ AppState'.mcp_port = AppState.mcp_port
        /\ \A t \in Tasks : \A svc, other \in Services :
             ( /\ task'[t] # task[t]
               /\ StepOp(task[t], task'[t]) \in StartOps \cup StopOps
               /\ SvcOf(StepOp(task[t], task'[t])) = svc
               /\ other # svc )
             => /\ Running(other)' = Running(other)
                /\ Child(other)' = Child(other)
                /\ lastEvent'[Channel(other)] = lastEvent[Channel(other)]
                /\ Live(other)' = Live(other)
                /\ \A p \in Live(other) : procs'[p] = procs[p]
      ]_vars

\* C19 witness: do_stop_server has run to its "stopped" notification while
\* the MCP server is running with its handle stored: all of the MCP side is
\* as do_start_mcp left it.
C19_Witness ==
    \E t \in Tasks :
        /\ Done(t) /\ task[t].op = "do_stop_server"
        /\ task[t].emitted = <<"stopped">> /\ task[t].reg0 # NoChild
        /\ ~AppState.server_running /\ ServerProcess.child = NoChild
        /\ AppState.mcp_running
        /\ McpProcess.child \in Live("mcp")
        /\ lastEvent["mcp-status"] = "running"

\* C20: a running flag goes from true to false only in the state update of
\* the stop of its service, and no start operation ever writes false to a
\* flag, on any of its paths.
C20_ClearedOnlyByStop ==
    [][ /\ \A svc \in Services :
             (Running(svc) /\ ~Running(svc)')
             => \E t \in Tasks :
                  /\ task[t].op \in StopOps /\ SvcOf(task[t].op) = svc
                  /\ task[t].pc \in {"st_update", "sm_update"}
                  /\ task'[t].writes = Append(task[t].writes, FALSE)
        /\ \A t \in Tasks :
             task'[t].op \in StartOps => ~Has(task'[t].writes, FALSE)
      ]_vars

\* C20 witness: start_backend_server gave up and emitted "failed" while
\* server_running, set by an earlier start, is still true.
C20_Witness ==
    \E t \in Tasks :
        /\ Done(t) /\ task[t].op = "start_backend_server"
        /\ Last(task[t].emitted) = "failed"
        /\ task[t].writes = <<>>
        /\ AppState.server_running
        /\ lastEvent["server-status"] = "failed"

====
